---- MODULE Spec2Model ----
(***************************************************************************)
(* Model of src/main.py: the FastAPI endpoint POST /scrape queues          *)
(* run_scraper(query) as a background task.  run_scraper reads its         *)
(* settings, seeds the set existing_data from column 1 of the worksheet    *)
(* "Data", walks the detail pages of the first listings of the results     *)
(* feed, collects the rows whose name is new in scraped_data, and appends  *)
(* them to the worksheet in one batch.                                     *)
(*                                                                         *)
(* A worksheet is the sequence of its rows; a row is the sequence of its   *)
(* cells.  A detail page is a function from the selectors the code queries *)
(* to the text found there, or MISSING when the element does not exist.    *)
(***************************************************************************)
EXTENDS Integers, Sequences, FiniteSets, TLC

\* ---------------------------------------------------------------- bounds
\* Longest results feed the provider returns.
MaxFeed == 3
\* listing_urls[:40] (main.py:107): the per-invocation limit, scaled down
\* from 40 so that a feed of MaxFeed listings can exceed it.
ListingLimit == 2
\* Number of POST /scrape requests in a behaviour.
MaxRuns == 2

\* The two background-task slots whose run_scraper calls may overlap.
Procs == {1, 2}

\* Business names the provider shows.
Names == {"a", "b"}

\* ------------------------------------------------------------ python values
NA == "N/A"
EMPTY == ""
MISSING == "<no such element>"
Timestamp == "<now>"

\* Row 1 of a worksheet that was prepared with a title row.
HeaderRow == <<"Name", "Category", "Address", "Rating", "Reviews",
               "Website", "Phone", "Scraped At">>

\* ------------------------------------------------------------ the provider
\* What the h1 of a listing's detail page yields: a business name, an
\* empty headline, or no h1 element by the time find_element runs.
Headlines == Names \cup {EMPTY, MISSING}

\* The results feeds: every sequence of at most MaxFeed listings.
Feeds == UNION {[1..n -> Headlines] : n \in 0..MaxFeed}

\* The detail page behind a listing.  Business "a" shows every element the
\* scraper looks for; any other listing shows the headline only.
DetailPage(h) ==
    IF h = "a"
    THEN [h1 |-> h, address |-> "1 Main St", authority |-> "a.example",
          phone |-> "555-0100", category |-> "Cafe",
          rating |-> <<"4.5", "stars", "128", "Reviews">>]
    ELSE [h1 |-> h, address |-> MISSING, authority |-> MISSING,
          phone |-> MISSING, category |-> MISSING, rating |-> MISSING]

\* os.environ as run_scraper finds it.
Environs == {"ok", "no_sheet_name", "no_credentials", "bad_json", "bad_credentials"}

\* The worksheets a behaviour starts from: a blank worksheet, one with the
\* title row only, one with the title row and a stored business.
StoredRow == <<"a", "Cafe", "1 Main St", "4.5", "", "a.example", "555-0100", Timestamp>>
InitSheets == {<< >>, <<HeaderRow>>, <<HeaderRow, StoredRow>>}

VARIABLES
    sheet,          \* the worksheet "Data": sequence of rows
    feed,           \* the provider's results for the query
    environ,        \* the settings in os.environ
    runs,           \* POST /scrape requests accepted so far
    clean_runs,     \* invocations that walked their listings without a failure
    pc,             \* per task: position in run_scraper
    existing_data,  \* per task: the set seeded at line 57
    driver,         \* per task: "none", "open" or "quit"
    listing_urls,   \* per task: the listings collected at line 103
    i,              \* per task: listings of the loop already handled
    scraped_data,   \* per task: the rows collected at line 146
    fail            \* per task: the first failed fetch and len(scraped_data) then

\* The per-task variables are the locals of one run_scraper call: they hold
\* their initial values while no call is running in the slot.

vars == <<sheet, feed, environ, runs, clean_runs, pc, existing_data, driver,
          listing_urls, i, scraped_data, fail>>

NoFail == [kind |-> "none", kept |-> 0]

\* ------------------------------------------------------------ pure helpers
\* get_detail: the element's text, "N/A" when there is no such element.
get_detail(page, selector) ==
    IF page[selector] = MISSING THEN NA ELSE page[selector]

\* worksheet.col_values(1)
col_values(sh) == [k \in 1..Len(sh) |-> sh[k][1]]

\* lst[1:]
Rest(lst) == IF lst = << >> THEN << >> ELSE Tail(lst)

Range(s) == {s[k] : k \in 1..Len(s)}

\* set(worksheet.col_values(1)[1:])
read_existing(sh) == Range(Rest(col_values(sh)))

\* listing_urls[:40]
Limited(urls) == SubSeq(urls, 1, IF Len(urls) < ListingLimit THEN Len(urls) ELSE ListingLimit)

\* str.strip().split(' ') on a label given as its space-separated words:
\* leading and trailing empty words go, inner ones stay.
RECURSIVE DropLeading(_)
DropLeading(ws) ==
    IF ws # << >> /\ Head(ws) = EMPTY THEN DropLeading(Tail(ws)) ELSE ws

RECURSIVE DropTrailing(_)
DropTrailing(ws) ==
    IF ws # << >> /\ ws[Len(ws)] = EMPTY
    THEN DropTrailing(SubSeq(ws, 1, Len(ws) - 1))
    ELSE ws

StripSplit(ws) ==
    LET s == DropTrailing(DropLeading(ws))
    IN  IF s = << >> THEN <<EMPTY>> ELSE s

\* str.replace(word, '') on a label given as its words
Without(ws, word) == [k \in 1..Len(ws) |-> IF ws[k] = word THEN EMPTY ELSE ws[k]]

\* lines 127-140: <<category, rating_text, reviews_text>>
rating_fields(page) ==
    IF page.category = MISSING THEN <<NA, NA, "0">>
    ELSE IF page.rating = MISSING THEN <<page.category, NA, "0">>
    ELSE IF "stars" \notin Range(page.rating) THEN <<page.category, NA, "0">>
    ELSE LET parts == StripSplit(Without(page.rating, "stars"))
         IN  <<page.category,
               parts[1],
               IF Len(parts) > 1
               THEN StripSplit(Without(<<parts[Len(parts)]>>, "Reviews"))[1]
               ELSE "0">>

\* lines 123-145: the row built for an accepted listing
business_data(name, page) ==
    LET r == rating_fields(page)
    IN  <<name, r[1], get_detail(page, "address"), r[2], r[3],
          get_detail(page, "authority"), get_detail(page, "phone"), Timestamp>>

\* line 118: if not name or name in existing_data
Skipped(name, existing) == name = EMPTY \/ name \in existing

\* worksheet.append_rows(scraped_data)
append_rows_unique(sh, rows) ==
    sh \o SelectSeq(rows, LAMBDA r : r[1] \notin Range(col_values(sh)))

append_rows(sh, rows) == sh \o rows

\* os.environ[...] raises KeyError (lines 46-47)
KeyMissing_never(env) == FALSE

KeyMissing(env) == env \in {"no_sheet_name", "no_credentials"}

\* json.loads accepts GOOGLE_CREDENTIALS_JSON (line 48)
JsonLoads(env) == env # "bad_json"

\* service_account_from_dict / open / worksheet succeed (lines 54-56)
CredentialsWork(env) == env = "ok"

\* ------------------------------------------------------------ Init
Init ==
    /\ sheet \in InitSheets
    /\ feed \in Feeds
    /\ environ \in Environs
    /\ runs = 0
    /\ clean_runs = 0
    /\ pc = [p \in Procs |-> "done"]
    /\ existing_data = [p \in Procs |-> {}]
    /\ driver = [p \in Procs |-> "none"]
    /\ listing_urls = [p \in Procs |-> << >>]
    /\ i = [p \in Procs |-> 0]
    /\ scraped_data = [p \in Procs |-> << >>]
    /\ fail = [p \in Procs |-> NoFail]

\* ------------------------------------------------------------ actions
\* run_scraper returns (or raises out): its locals are gone.
Return(p) ==
    /\ pc' = [pc EXCEPT ![p] = "done"]
    /\ existing_data' = [existing_data EXCEPT ![p] = {}]
    /\ driver' = [driver EXCEPT ![p] = "none"]
    /\ listing_urls' = [listing_urls EXCEPT ![p] = << >>]
    /\ i' = [i EXCEPT ![p] = 0]
    /\ scraped_data' = [scraped_data EXCEPT ![p] = << >>]
    /\ fail' = [fail EXCEPT ![p] = NoFail]

\* POST /scrape (lines 163-166): queue run_scraper as a background task.
\* The task takes the lowest free slot.
scrape(p) ==
    /\ pc[p] = "done"
    /\ \A q \in Procs : q < p => pc[q] # "done"
    /\ runs < MaxRuns
    /\ runs' = runs + 1
    /\ pc' = [pc EXCEPT ![p] = "start"]
    /\ UNCHANGED <<sheet, feed, environ, clean_runs, existing_data, driver,
                   listing_urls, i, scraped_data, fail>>

\* lines 45-51: read the settings.  A missing variable returns; a value
\* json.loads rejects raises out of run_scraper.
LoadConfig(p) ==
    /\ pc[p] = "start"
    /\ IF KeyMissing(environ) \/ ~JsonLoads(environ)
       THEN Return(p)
       ELSE /\ pc' = [pc EXCEPT ![p] = "connect"]
            /\ UNCHANGED <<existing_data, driver, listing_urls, i, scraped_data, fail>>
    /\ UNCHANGED <<sheet, feed, environ, runs, clean_runs>>

\* lines 53-58: open the worksheet and seed existing_data.
Connect(p) ==
    /\ pc[p] = "connect"
    /\ CredentialsWork(environ)
    /\ existing_data' = [existing_data EXCEPT ![p] = read_existing(sheet)]
    /\ pc' = [pc EXCEPT ![p] = "navigate"]
    /\ UNCHANGED <<sheet, feed, environ, runs, clean_runs, driver,
                   listing_urls, i, scraped_data, fail>>

\* lines 59-61: the connection failed (bad credentials, no such worksheet,
\* network); return.
ConnectFails(p) ==
    /\ pc[p] = "connect"
    /\ Return(p)
    /\ UNCHANGED <<sheet, feed, environ, runs, clean_runs>>

\* lines 72-104: start the browser, load the search page, collect the links.
Navigate(p) ==
    /\ pc[p] = "navigate"
    /\ driver' = [driver EXCEPT ![p] = "open"]
    /\ listing_urls' = [listing_urls EXCEPT ![p] = feed]
    /\ i' = [i EXCEPT ![p] = 0]
    /\ pc' = [pc EXCEPT ![p] = "visit"]
    /\ UNCHANGED <<sheet, feed, environ, runs, clean_runs, existing_data,
                   scraped_data, fail>>

\* lines 88-93: the results container never shows; quit and return.
FeedTimeout(p) ==
    /\ pc[p] = "navigate"
    /\ Return(p)
    /\ UNCHANGED <<sheet, feed, environ, runs, clean_runs>>

\* lines 152-155 reached from lines 76-104: loading the search page raises.
NavigateError(p) ==
    /\ pc[p] = "navigate"
    /\ driver' = [driver EXCEPT ![p] = "quit"]
    /\ fail' = [fail EXCEPT ![p] = [kind |-> "error", kept |-> 0]]
    /\ pc' = [pc EXCEPT ![p] = "append"]
    /\ UNCHANGED <<sheet, feed, environ, runs, clean_runs, existing_data,
                   listing_urls, i, scraped_data>>

\* for i, listing_url in enumerate(listing_urls[:40]): a listing is left
InLoop(p) == pc[p] = "visit" /\ i[p] < Len(Limited(listing_urls[p]))

\* The first failed fetch of the call is noted, with the rows collected by then.
NoteFail(p, kind) ==
    IF fail[p].kind = "none"
    THEN [fail EXCEPT ![p] = [kind |-> kind, kept |-> Len(scraped_data[p])]]
    ELSE fail

\* lines 146-147: scraped_data.append(business_data); existing_data.add(name)
Accept_forgetful(p, name, page) ==
    /\ scraped_data' = [scraped_data EXCEPT ![p] = Append(@, business_data(name, page))]
    /\ UNCHANGED existing_data

Accept(p, name, page) ==
    /\ scraped_data' = [scraped_data EXCEPT ![p] = Append(@, business_data(name, page))]
    /\ existing_data' = [existing_data EXCEPT ![p] = @ \cup {name}]

\* lines 117-148 for a listing whose detail page loaded.
VisitListing(p) ==
    /\ InLoop(p)
    /\ LET page == DetailPage(listing_urls[p][i[p] + 1])
           name == get_detail(page, "h1")
       IN  IF Skipped(name, existing_data[p])
           THEN UNCHANGED <<scraped_data, existing_data>>
           ELSE Accept(p, name, page)
    /\ i' = [i EXCEPT ![p] = @ + 1]
    /\ UNCHANGED <<sheet, feed, environ, runs, clean_runs, pc, driver,
                   listing_urls, fail>>

\* lines 110-115: the headline never shows; skip the listing.
ListingTimeout(p) ==
    /\ InLoop(p)
    /\ fail' = NoteFail(p, "timeout")
    /\ i' = [i EXCEPT ![p] = @ + 1]
    /\ UNCHANGED <<sheet, feed, environ, runs, clean_runs, pc, existing_data, driver,
                   listing_urls, scraped_data>>

\* lines 152-155 reached from the loop: any other exception ends the loop.
ListingError_skip(p) ==
    /\ InLoop(p)
    /\ fail' = NoteFail(p, "error")
    /\ i' = [i EXCEPT ![p] = @ + 1]
    /\ UNCHANGED <<sheet, feed, environ, runs, clean_runs, pc, existing_data, driver,
                   listing_urls, scraped_data>>

ListingError(p) ==
    /\ InLoop(p)
    /\ fail' = NoteFail(p, "error")
    /\ driver' = [driver EXCEPT ![p] = "quit"]
    /\ pc' = [pc EXCEPT ![p] = "append"]
    /\ UNCHANGED <<sheet, feed, environ, runs, clean_runs, existing_data,
                   listing_urls, i, scraped_data>>

\* lines 107, 154-155: the listings are used up; quit the browser.
LoopExit(p) ==
    /\ pc[p] = "visit"
    /\ i[p] >= Len(Limited(listing_urls[p]))
    /\ driver' = [driver EXCEPT ![p] = "quit"]
    /\ pc' = [pc EXCEPT ![p] = "append"]
    /\ UNCHANGED <<sheet, feed, environ, runs, clean_runs, existing_data,
                   listing_urls, i, scraped_data, fail>>

\* lines 157-161: append the collected rows, if any, in one batch; return.
AppendRows(p) ==
    /\ pc[p] = "append"
    /\ sheet' = IF scraped_data[p] # << >> THEN append_rows(sheet, scraped_data[p]) ELSE sheet
    /\ clean_runs' = IF fail[p].kind = "none" /\ clean_runs < MaxRuns
                     THEN clean_runs + 1 ELSE clean_runs
    /\ Return(p)
    /\ UNCHANGED <<feed, environ, runs>>

Step(p) ==
    \/ LoadConfig(p)
    \/ Connect(p)
    \/ ConnectFails(p)
    \/ Navigate(p)
    \/ FeedTimeout(p)
    \/ NavigateError(p)
    \/ VisitListing(p)
    \/ ListingTimeout(p)
    \/ ListingError(p)
    \/ LoopExit(p)
    \/ AppendRows(p)

\* Requests arrive one after the other: a task starts when none is running.
scrape_alone(p) == (\A q \in Procs : pc[q] = "done") /\ scrape(p)

NextSeq == \E p \in Procs : scrape_alone(p) \/ Step(p)

SpecSeq == Init /\ [][NextSeq]_vars

\* Requests arrive at any time: background tasks may overlap.
Next == \E p \in Procs : scrape(p) \/ Step(p)

Spec == Init /\ [][Next]_vars

\* Overlapping requests with working settings, a worksheet that has its title
\* row, and fetches that all succeed.  Every behaviour of SpecOverlap is a
\* behaviour of Spec.
InitOverlap == Init /\ environ = "ok" /\ sheet # << >>

NextOverlap ==
    \E p \in Procs :
        \/ scrape(p)
        \/ LoadConfig(p)
        \/ Connect(p)
        \/ Navigate(p)
        \/ VisitListing(p)
        \/ LoopExit(p)
        \/ AppendRows(p)

SpecOverlap == InitOverlap /\ [][NextOverlap]_vars

\* ------------------------------------------------------------ properties
\* Rows of the worksheet whose name cell is n.
Count(n, sh) == Cardinality({k \in 1..Len(sh) : sh[k][1] = n})

\* The names a worksheet stores: its name cells, the title cell apart.
SheetNames(sh) == Range(col_values(sh)) \ {HeaderRow[1]}

\* The names of the rows a task has collected.
BatchNames(p) == Range(col_values(scraped_data[p]))

\* Every name a row can be stored under.
StoredNames == Names \cup {NA, EMPTY}

\* A task is at line 157, about to append, and returns in this step.
Appends(p) == pc[p] = "append" /\ pc'[p] = "done"

\* C1: under sequential requests the worksheet never holds two rows with the
\* same name.
C1_NoDuplicateRows == \A n \in StoredNames : Count(n, sheet) <= 1

\* C2: the batch an invocation is about to append holds no name the worksheet
\* already stores (under sequential requests the worksheet is as the
\* invocation found it).
C2_BatchIsNew ==
    \A p \in Procs : pc[p] = "append" => BatchNames(p) \cap SheetNames(sheet) = {}

\* C3: once an invocation has completed without a failed fetch, a later
\* invocation over the same feed has nothing to append.
C3_SecondRunAppendsNothing ==
    \A p \in Procs : pc[p] = "append" /\ clean_runs >= 1 => scraped_data[p] = << >>

\* C4: within a call the collected rows carry pairwise different names, each
\* of them is in existing_data, and existing_data never loses a name.
C4_BufferDistinct ==
    \A p \in Procs :
        /\ \A j, k \in 1..Len(scraped_data[p]) :
              scraped_data[p][j][1] = scraped_data[p][k][1] => j = k
        /\ BatchNames(p) \subseteq existing_data[p]

C4_IndexGrows ==
    \A p \in Procs : pc'[p] # "done" => existing_data[p] \subseteq existing_data'[p]

C4_AcceptedOnce == []C4_BufferDistinct /\ [][C4_IndexGrows]_vars

\* C4 witness: the feed showed the same name twice and the call has handled
\* both listings, collecting one row.
C4_Witness ==
    \E p \in Procs :
        /\ pc[p] = "visit"
        /\ i[p] = 2
        /\ listing_urls[p][1] \in Names
        /\ listing_urls[p][1] = listing_urls[p][2]
        /\ Len(scraped_data[p]) = 1

\* C5: an invocation stopped by its listing limit leaves a position the next
\* one resumes from: after two invocations without a failed fetch, every
\* business among the first 2 * ListingLimit listings of the feed is stored.
C5_SecondRunResumes ==
    clean_runs >= 2 /\ Len(feed) <= 2 * ListingLimit
        => \A k \in 1..Len(feed) : feed[k] \in Names => feed[k] \in SheetNames(sheet)

C6_ErrorEndsLoop ==
    \A p \in Procs :
        fail[p].kind = "error"
            => pc[p] = "append" /\ Len(scraped_data[p]) = fail[p].kept

C6_BatchAppended ==
    \A p \in Procs : Appends(p) => sheet' = sheet \o scraped_data[p]

C7_NameResolved ==
    \A p \in Procs : \A k \in 1..Len(scraped_data[p]) :
        scraped_data[p][k][1] \notin {EMPTY, NA}

\* C8: every collected row has the thirteen columns of the output schema.
OutputSchema ==
    <<"name", "category", "address", "rating", "review_count", "website", "phone",
      "price_level", "hours", "service_options", "latitude", "longitude", "timestamp">>

C8_FullRow ==
    \A p \in Procs : \A k \in 1..Len(scraped_data[p]) :
        Len(scraped_data[p][k]) = Len(OutputSchema)

\* C9: with a setting missing or unusable no call gets past the connection:
\* no browser, nothing read from the worksheet, nothing appended.
C9_Stopped ==
    environ # "ok" =>
        \A p \in Procs :
            /\ pc[p] \in (IF environ = "bad_credentials"
                          THEN {"done", "start", "connect"}
                          ELSE {"done", "start"})
            /\ driver[p] = "none"
            /\ existing_data[p] = {}
            /\ listing_urls[p] = << >>

C9_SheetUntouched == environ # "ok" => sheet' = sheet

C9_AbortsBeforeAccess == []C9_Stopped /\ [][C9_SheetUntouched]_vars

\* C9 witness: a request was served with a setting missing and its call is over.
C9_Witness ==
    /\ environ \in {"no_sheet_name", "no_credentials", "bad_json"}
    /\ runs > 0
    /\ \A p \in Procs : pc[p] = "done"

\* C10: nothing keeps a call from appending a name another call stored after
\* this one seeded existing_data: the append then leaves the worksheet with
\* two rows of that name.
C10_RaceDuplicates ==
    [][\A p \in Procs :
          Appends(p) =>
              \A n \in BatchNames(p) \cap SheetNames(sheet) : Count(n, sheet') >= 2]_vars

\* C10 witness: the worksheet has its title row and two rows with one name.
C10_Witness ==
    /\ sheet # << >>
    /\ sheet[1] = HeaderRow
    /\ \E n \in Names : Count(n, sheet) >= 2

====
